---- MODULE Spec2Model ----
(***************************************************************************)
(* Model of src/purge.py: the purge cycle of FilePurger (scan, delete,     *)
(* remove empty directories, notify) and the loop of run_continuous.       *)
(*                                                                         *)
(* A path is the tuple of its parts relative to the target root, so the    *)
(* target root is << >>.  The tree is drawn from a fixed set of paths;     *)
(* which of them exist, and the modification time of each file, is chosen  *)
(* in Init.  Time is counted in seconds, in steps of half a day.           *)
(***************************************************************************)
EXTENDS Integers, Sequences, FiniteSets, TLC

\* ------------------------------------------------------------------ bounds
MaxCycles == 2          \* purge cycles run_continuous may start
MaxOverAge == 1         \* files start up to MaxOverAge half days over the limit
MaxFaults == 1          \* disturbances during the run: system calls of the
                        \* purger that raise, removals by another actor,
                        \* and interrupt signals

\* ------------------------------------------------------- program constants
SecondsPerDay == 86400
MAX_AGE_DAYS == 30          \* default of PURGE_MAX_AGE_DAYS
KiB == 1024
COLOR_OK == 65280           \* 0x00ff00
COLOR_WARNING == 16753920   \* 0xffa500
COLOR_GRAY == 8421504       \* 0x808080
COLOR_BLUE == 39423         \* 0x0099ff
COLOR_RED == 16711680       \* 0xff0000

HalfDay == SecondsPerDay \div 2
\* ages at the start: half a day under the limit, the limit itself, and
\* 1..MaxOverAge half days over it
InitialAges == { MAX_AGE_DAYS * SecondsPerDay + k * HalfDay : k \in (0 - 1)..MaxOverAge }
Now0 == MAX_AGE_DAYS * SecondsPerDay + (MaxOverAge + 1) * HalfDay

\* ------------------------------------------------------------ the tree
target_dir == << >>

DirPaths == { << >>, <<"a">>, <<"a", "b">>, <<"a", "b", "c">> }

RegularPaths == { <<"f">>, <<"a", "b", "c", "g">> }

\* symbolic links whose target is a regular file outside the tree
LinkPaths == { <<"a", "l">> }

FilePaths == RegularPaths \cup LinkPaths

\* The order in which Path.rglob('*') yields the paths: the entries of the
\* root, then, directory by directory in pre-order, the entries of each
\* subdirectory.
RglobOrder ==
    << <<"a">>, <<"f">>,
       <<"a", "b">>, <<"a", "l">>,
       <<"a", "b", "c">>,
       <<"a", "b", "c", "g">> >>

\* st_size of each file (of a link: of its target)
FileSize(p) ==
    CASE p = <<"f">> -> 512
      [] p = <<"a", "b", "c", "g">> -> 1536
      [] OTHER -> 3 * KiB * KiB

Parent(p) == SubSeq(p, 1, Len(p) - 1)

RECURSIVE IsUnder(_, _)
\* p lies under directory d (at any depth)
IsUnder(p, d) ==
    IF Len(p) <= Len(d) THEN FALSE
    ELSE IF Parent(p) = d THEN TRUE
    ELSE IsUnder(Parent(p), d)

Range(s) == { s[k] : k \in 1..Len(s) }

RECURSIVE SelectSeqBy(_, _)
\* the subsequence of s whose elements are in set S
SelectSeqBy(s, S) ==
    IF s = << >> THEN << >>
    ELSE IF Head(s) \in S THEN <<Head(s)>> \o SelectSeqBy(Tail(s), S)
    ELSE SelectSeqBy(Tail(s), S)

VARIABLES
    \* configuration (main, FilePurger.__init__, DiscordNotifier.__init__)
    dry_run, max_age_days, check_interval_seconds, webhook_enabled,
    \* the filesystem and the clock
    dirs, files, mtime, now,
    \* control: where main / run_continuous / run_purge stands, cycles
    \* started, the exception on its way up, interrupt signals delivered
    pc, cycle, exc, signals,
    \* locals of run_purge
    old_files, i, file_info, deleted_files, deleted_files_info, failed_files,
    all_dirs, j, removed_dirs,
    \* what the program emits: notifications sent, logger.error lines of the
    \* scan and of the directory pass in the current cycle
    sent, log,
    \* history of the current cycle: the tree when the cycle began, the files
    \* another actor removed, delete_file calls per path, the deleted list
    \* delete_file would have produced in dry-run mode, whether the last
    \* metadata capture failed, and the notifications sent before the cycle
    files0, dirs0, ext_removed, attempts, would_delete, info_failed, sent0,
    \* history across cycles: whether the previous cycle was undisturbed and
    \* free of errors, and the faults so far
    prev_quiet, prev_clean, faults

config == <<dry_run, max_age_days, check_interval_seconds, webhook_enabled>>
fs == <<dirs, files, mtime>>
control == <<pc, cycle, exc, signals>>
locals == <<old_files, i, file_info, deleted_files, deleted_files_info,
            failed_files, all_dirs, j, removed_dirs>>
emitted == <<sent, log>>
cycle_history == <<files0, dirs0, ext_removed, attempts, would_delete,
                   info_failed, sent0>>
history == <<cycle_history, prev_quiet, prev_clean, faults>>
vars == <<config, fs, now, control, locals, emitted, history>>

\* ------------------------------------------------------------ DiscordNotifier
\* what becomes of a call of send_notification: nothing is posted without a
\* webhook; otherwise the post goes through or raises
Delivery(enabled, post_ok) ==
    IF ~enabled THEN "skipped" ELSE IF post_ok THEN "delivered" ELSE "failed"

\* variant: a failed post is not caught
send_notification_Propagates(out, enabled, title, body, color, post_ok) ==
    [sent |-> Append(out, [title |-> title, body |-> body, color |-> color,
                           delivery |-> Delivery(enabled, post_ok)]),
     raised |-> enabled /\ ~post_ok]

\* send_notification: the call is recorded with its title, its colour and
\* what became of it; raised is whether an exception leaves the call
send_notification(out, enabled, title, body, color, post_ok) ==
    [sent |-> Append(out, [title |-> title, body |-> body, color |-> color,
                           delivery |-> Delivery(enabled, post_ok)]),
     raised |-> FALSE]

\* ------------------------------------------------------------ FilePurger
\* get_file_age_days: (time.time() - st_mtime) / 86400, kept as a fraction
get_file_age_days(p, mt, t) == [num |-> t - mt[p], den |-> SecondsPerDay]

\* variant: the comparison is >= instead of >
IsOld_AtLeast(age, limit) == age.num >= limit * age.den

\* age_days > self.max_age_days
IsOld(age, limit) == age.num > limit * age.den

\* the items of rglob('*') that exist, in traversal order
rglob(ds, fl) == SelectSeqBy(RglobOrder, (ds \cup fl) \ {target_dir})

RECURSIVE ScanFrom(_, _, _, _, _, _, _)
\* the loop of find_old_files over items[k..]; the item at position err_at
\* raises, which ends the loop with what was collected so far
ScanFrom(items, k, err_at, fl, mt, t, limit) ==
    IF k > Len(items) \/ k = err_at THEN << >>
    ELSE LET item == items[k]
             rest == ScanFrom(items, k + 1, err_at, fl, mt, t, limit)
         IN  IF item \in fl /\ IsOld(get_file_age_days(item, mt, t), limit)
             THEN <<item>> \o rest
             ELSE rest

\* variant: the scan returns at its first match
find_old_files_FirstOnly(ds, fl, mt, t, limit, err_at) ==
    LET found == ScanFrom(rglob(ds, fl), 1, err_at, fl, mt, t, limit)
    IN  IF found = << >> THEN << >> ELSE <<Head(found)>>

find_old_files(ds, fl, mt, t, limit, err_at) ==
    ScanFrom(rglob(ds, fl), 1, err_at, fl, mt, t, limit)

\* variant: the dry-run test is missing
delete_file_IgnoresDryRun(dry, p, fl, unlink_ok) ==
    IF p \in fl /\ unlink_ok THEN [ok |-> TRUE, files |-> fl \ {p}]
    ELSE [ok |-> FALSE, files |-> fl]

\* variant: the except branch returns True as well
delete_file_SuccessOnError(dry, p, fl, unlink_ok) ==
    IF dry THEN [ok |-> TRUE, files |-> fl]
    ELSE IF p \in fl /\ unlink_ok THEN [ok |-> TRUE, files |-> fl \ {p}]
    ELSE [ok |-> TRUE, files |-> fl]

\* variant: the exception is raised after the unlink went through
delete_file_UnlinkThenFail(dry, p, fl, unlink_ok) ==
    IF dry THEN [ok |-> TRUE, files |-> fl]
    ELSE IF p \in fl /\ unlink_ok THEN [ok |-> TRUE, files |-> fl \ {p}]
    ELSE [ok |-> FALSE, files |-> fl \ {p}]

\* variant: dry-run mode reports a missing file as a failure
delete_file_DryRunChecksExistence(dry, p, fl, unlink_ok) ==
    IF dry THEN [ok |-> p \in fl, files |-> fl]
    ELSE IF p \in fl /\ unlink_ok THEN [ok |-> TRUE, files |-> fl \ {p}]
    ELSE [ok |-> FALSE, files |-> fl]

\* delete_file: ok is the return value, files the files left afterwards.
\* unlink_ok is whether the operating system lets an existing file go.
delete_file(dry, p, fl, unlink_ok) ==
    IF dry THEN [ok |-> TRUE, files |-> fl]
    ELSE IF p \in fl /\ unlink_ok THEN [ok |-> TRUE, files |-> fl \ {p}]
    ELSE [ok |-> FALSE, files |-> fl]

\* format_file_size: size is divided by 1024.0 until it is below 1024 and
\* printed with one decimal, kept here as <<tenths of the unit, unit>>;
\* "?" (UnknownSize) when stat fails
UnknownSize == <<0 - 1, "?">>

RECURSIVE FormatSize(_, _, _)
FormatSize(num, den, units) ==
    IF units = << >> THEN <<(20 * num + den) \div (2 * den), "TB">>
    ELSE IF num < KiB * den
         THEN <<(20 * num + den) \div (2 * den), Head(units)>>
         ELSE FormatSize(num, den * KiB, Tail(units))

format_file_size(p, fl) ==
    IF p \in fl THEN FormatSize(FileSize(p), 1, <<"B", "KB", "MB", "GB">>)
    ELSE UnknownSize

format_file_path(p) == p

\* variant: only the files of a directory count as its entries
iterdir_FilesOnly(d, ds, fl) == { p \in fl : Parent(p) = d }

\* entries of a directory: what directory.iterdir() yields
iterdir(d, ds, fl) == { p \in (ds \cup fl) \ {target_dir} : Parent(p) = d }

RECURSIVE InsertByDepth_ShallowFirst(_, _)
\* variant: reverse=True is missing, the shallowest directory comes first
InsertByDepth_ShallowFirst(x, s) ==
    IF s = << >> THEN <<x>>
    ELSE IF Len(Head(s)) <= Len(x)
         THEN <<Head(s)>> \o InsertByDepth_ShallowFirst(x, Tail(s))
         ELSE <<x>> \o s

RECURSIVE InsertByDepth(_, _)
\* x goes behind every element at least as deep as x (the sort is stable)
InsertByDepth(x, s) ==
    IF s = << >> THEN <<x>>
    ELSE IF Len(Head(s)) >= Len(x) THEN <<Head(s)>> \o InsertByDepth(x, Tail(s))
    ELSE <<x>> \o s

RECURSIVE SortDeepestFirst(_, _)
\* sorted(..., key=lambda x: len(x.parts), reverse=True), inserting s into acc
SortDeepestFirst(s, acc) ==
    IF s = << >> THEN acc
    ELSE SortDeepestFirst(Tail(s), InsertByDepth(Head(s), acc))

\* variant: the walk yields the target root too and the loop does not skip it
directories_to_check_WithRoot(ds, fl) ==
    SortDeepestFirst(SelectSeqBy(<<target_dir>> \o rglob(ds, fl), ds), << >>)

\* the directories the loop of remove_empty_directories acts on, in order:
\* every directory rglob yields, deepest first, the target root skipped
directories_to_check(ds, fl) ==
    SelectSeqBy(SortDeepestFirst(SelectSeqBy(rglob(ds, fl), ds), << >>),
                ds \ {target_dir})

RECURSIVE RemoveFrom(_, _, _, _, _)
\* the loop of remove_empty_directories over all_dirs[k..] when no call
\* raises: an empty directory is recorded and, unless dry, removed before
\* the next one is looked at
RemoveFrom(all, k, dry, ds, fl) ==
    IF k > Len(all) THEN << >>
    ELSE LET directory == all[k]
         IN  IF iterdir(directory, ds, fl) = {}
             THEN <<directory>> \o
                  RemoveFrom(all, k + 1, dry,
                             IF dry THEN ds ELSE ds \ {directory}, fl)
             ELSE RemoveFrom(all, k + 1, dry, ds, fl)

\* remove_empty_directories when no call raises: the list it returns
remove_empty_directories(dry, ds, fl) ==
    RemoveFrom(directories_to_check(ds, fl), 1, dry, ds, fl)

NoInfo == [path |-> target_dir, relative_path |-> target_dir,
           size |-> UnknownSize, age_days |-> [num |-> 0, den |-> 1]]

NoAttempts == [p \in FilePaths |-> 0]

\* ------------------------------------------------------------ initial states
\* a tree: every entry's parent exists; no root means no tree at all
Trees ==
    { t \in [dirs : SUBSET DirPaths, files : SUBSET FilePaths] :
        /\ t.dirs = {} \/ target_dir \in t.dirs
        /\ \A d \in t.dirs \ {target_dir} : Parent(d) \in t.dirs
        /\ \A f \in t.files : Parent(f) \in t.dirs }

InitialMtimes == { Now0 - age : age \in InitialAges }

Init ==
    /\ dry_run \in BOOLEAN
    /\ max_age_days = MAX_AGE_DAYS
    /\ check_interval_seconds \in {0 - 1, 0, HalfDay}
    /\ webhook_enabled \in BOOLEAN
    /\ \E t \in Trees :
          /\ dirs = t.dirs
          /\ files = t.files
          /\ mtime \in { m \in [FilePaths -> InitialMtimes \cup {Now0}] :
                           \A p \in FilePaths : m[p] = Now0 <=> p \notin t.files }
    /\ now = Now0
    /\ pc = "main"
    /\ cycle = 0 /\ exc = "none" /\ signals = 0
    /\ old_files = << >> /\ i = 1 /\ file_info = NoInfo
    /\ deleted_files = << >> /\ deleted_files_info = << >>
    /\ failed_files = << >>
    /\ all_dirs = << >> /\ j = 1 /\ removed_dirs = << >>
    /\ sent = << >> /\ log = {}
    /\ files0 = {} /\ dirs0 = {} /\ ext_removed = {}
    /\ attempts = NoAttempts /\ would_delete = << >>
    /\ info_failed = FALSE /\ sent0 = 0
    /\ prev_quiet = FALSE /\ prev_clean = FALSE
    /\ faults = 0

\* an exception leaves run_purge: its locals are gone
Unwound ==
    /\ old_files' = << >> /\ i' = 1 /\ file_info' = NoInfo
    /\ deleted_files' = << >> /\ deleted_files_info' = << >>
    /\ failed_files' = << >>
    /\ all_dirs' = << >> /\ j' = 1 /\ removed_dirs' = << >>
    /\ log' = {}
    /\ files0' = {} /\ dirs0' = {} /\ ext_removed' = {}
    /\ attempts' = NoAttempts /\ would_delete' = << >>
    /\ info_failed' = FALSE /\ sent0' = 0
    /\ prev_quiet' = FALSE /\ prev_clean' = FALSE

\* a call of discord_notifier.send_notification: the post may fail when a
\* webhook is configured.  pc_ok is where control goes when the call
\* returns, pc_raise where it goes when an exception leaves the call.
Notified(title, body, color, pc_ok, pc_raise, exc_ok) ==
    \E post_ok \in BOOLEAN :
       /\ ~post_ok => webhook_enabled /\ faults < MaxFaults
       /\ faults' = IF post_ok THEN faults ELSE faults + 1
       /\ LET r == send_notification(sent, webhook_enabled, title, body,
                                     color, post_ok)
          IN  /\ sent' = r.sent
              /\ pc' = IF r.raised THEN pc_raise ELSE pc_ok
              /\ exc' = IF r.raised THEN "RequestException" ELSE exc_ok

\* ------------------------------------------------------------ main
\* variant: the constructor does not test the target directory
target_dir_exists_Unchecked(ds) == TRUE

\* FilePurger.__init__: self.target_dir.exists()
target_dir_exists(ds) == target_dir \in ds

\* main: FilePurger(...) raises ValueError when the target directory does
\* not exist; main reports it and re-raises.  Otherwise run_continuous.
Main ==
    /\ pc = "main"
    /\ IF target_dir_exists(dirs)
       THEN /\ pc' = "startup"
            /\ UNCHANGED <<sent, exc, faults>>
       ELSE Notified("File Purge Script Fehler", "could not start",
                     COLOR_RED, "failed", "failed", "ValueError")
    /\ UNCHANGED <<config, fs, now, cycle, signals, locals, log,
                   cycle_history, prev_quiet, prev_clean>>

\* run_continuous, before the loop: the startup notification
Startup ==
    /\ pc = "startup"
    /\ Notified("File Purge Script gestartet", "started", COLOR_BLUE,
                "loop", "reraised", "none")
    /\ UNCHANGED <<config, fs, now, cycle, signals, locals, log,
                   cycle_history, prev_quiet, prev_clean>>

\* ------------------------------------------------------------ run_purge
\* the head of run_purge: find_old_files and the empty result lists
StartCycle ==
    /\ pc = "loop"
    /\ cycle < MaxCycles
    /\ cycle' = cycle + 1
    /\ \E err_at \in 0..Len(rglob(dirs, files)) :
          /\ err_at # 0 => faults < MaxFaults
          /\ faults' = IF err_at = 0 THEN faults ELSE faults + 1
          /\ old_files' = find_old_files(dirs, files, mtime, now,
                                         max_age_days, err_at)
          /\ log' = IF err_at = 0 THEN {}
                    ELSE {[at |-> "scan", path |-> target_dir]}
    /\ i' = 1 /\ file_info' = NoInfo
    /\ deleted_files' = << >> /\ deleted_files_info' = << >>
    /\ failed_files' = << >>
    /\ all_dirs' = << >> /\ j' = 1 /\ removed_dirs' = << >>
    /\ pc' = IF old_files' = << >> THEN "dirs" ELSE "info"
    /\ files0' = files /\ dirs0' = dirs /\ ext_removed' = {}
    /\ attempts' = NoAttempts /\ would_delete' = << >>
    /\ info_failed' = FALSE /\ sent0' = Len(sent)
    /\ prev_quiet' = (cycle >= 1 /\ ext_removed = {})
    /\ prev_clean' = (cycle >= 1 /\ log = {} /\ failed_files = << >>)
    /\ UNCHANGED <<config, fs, now, exc, signals, sent>>

\* the file_info of run_purge.  format_file_size answers "?" by itself when
\* stat fails - and, its except clause being bare, also when an interrupt
\* arrives during its stat (size_interrupted); get_file_age_days raises when
\* stat fails and the except branch of run_purge records size "?" and age 0.
collect_file_info(file_path, fl, mt, t, size_interrupted) ==
    IF file_path \in fl
    THEN [path |-> file_path,
          relative_path |-> format_file_path(file_path),
          size |-> IF size_interrupted THEN UnknownSize
                   ELSE format_file_size(file_path, fl),
          age_days |-> get_file_age_days(file_path, mt, t)]
    ELSE [path |-> file_path,
          relative_path |-> format_file_path(file_path),
          size |-> UnknownSize,
          age_days |-> [num |-> 0, den |-> 1]]

\* the loop body of run_purge, first half: file info before the deletion
CollectInfo ==
    /\ pc = "info"
    /\ file_info' = collect_file_info(old_files[i], files, mtime, now, FALSE)
    /\ info_failed' = (old_files[i] \notin files)
    /\ pc' = "delete"
    /\ UNCHANGED <<config, fs, now, cycle, exc, signals, old_files, i,
                   deleted_files, deleted_files_info, failed_files, all_dirs,
                   j, removed_dirs, emitted, files0, dirs0, ext_removed,
                   attempts, would_delete, sent0, prev_quiet, prev_clean,
                   faults>>

\* variant: the loop ends at the first failed deletion
DeleteFile_StopOnFailure ==
    /\ pc = "delete"
    /\ \E unlink_ok \in BOOLEAN :
          LET file_path == old_files[i]
              r == delete_file(dry_run, file_path, files, unlink_ok)
              dry == delete_file(TRUE, file_path, files0 \ ext_removed,
                                 unlink_ok)
          IN  /\ ~unlink_ok =>
                    ~dry_run /\ file_path \in files /\ faults < MaxFaults
              /\ faults' = IF unlink_ok THEN faults ELSE faults + 1
              /\ files' = r.files
              /\ IF r.ok
                 THEN /\ deleted_files' = Append(deleted_files, file_path)
                      /\ deleted_files_info' =
                             Append(deleted_files_info, file_info)
                      /\ failed_files' = failed_files
                 ELSE /\ failed_files' = Append(failed_files, file_path)
                      /\ UNCHANGED <<deleted_files, deleted_files_info>>
              /\ attempts' = [attempts EXCEPT ![file_path] = @ + 1]
              /\ would_delete' = IF dry.ok THEN Append(would_delete, file_path)
                                 ELSE would_delete
              /\ pc' = IF i < Len(old_files) /\ r.ok THEN "info" ELSE "dirs"
    /\ i' = i + 1
    /\ UNCHANGED <<config, dirs, mtime, now, cycle, exc, signals, old_files,
                   file_info, all_dirs, j, removed_dirs, emitted, files0,
                   dirs0, ext_removed, info_failed, sent0, prev_quiet,
                   prev_clean>>

\* variant: the file info is collected after the deletion
DeleteFile_InfoAfterDeletion ==
    /\ pc = "delete"
    /\ \E unlink_ok \in BOOLEAN :
          LET file_path == old_files[i]
              r == delete_file(dry_run, file_path, files, unlink_ok)
              dry == delete_file(TRUE, file_path, files0 \ ext_removed,
                                 unlink_ok)
          IN  /\ ~unlink_ok =>
                    ~dry_run /\ file_path \in files /\ faults < MaxFaults
              /\ faults' = IF unlink_ok THEN faults ELSE faults + 1
              /\ files' = r.files
              /\ IF r.ok
                 THEN /\ deleted_files' = Append(deleted_files, file_path)
                      /\ deleted_files_info' =
                             Append(deleted_files_info,
                                    collect_file_info(file_path, r.files,
                                                      mtime, now, FALSE))
                      /\ failed_files' = failed_files
                 ELSE /\ failed_files' = Append(failed_files, file_path)
                      /\ UNCHANGED <<deleted_files, deleted_files_info>>
              /\ attempts' = [attempts EXCEPT ![file_path] = @ + 1]
              /\ would_delete' = IF dry.ok THEN Append(would_delete, file_path)
                                 ELSE would_delete
    /\ i' = i + 1
    /\ pc' = IF i < Len(old_files) THEN "info" ELSE "dirs"
    /\ UNCHANGED <<config, dirs, mtime, now, cycle, exc, signals, old_files,
                   file_info, all_dirs, j, removed_dirs, emitted, files0,
                   dirs0, ext_removed, info_failed, sent0, prev_quiet,
                   prev_clean>>

\* the loop body of run_purge, second half: delete_file and the two lists
DeleteFile ==
    /\ pc = "delete"
    /\ \E unlink_ok \in BOOLEAN :
          LET file_path == old_files[i]
              r == delete_file(dry_run, file_path, files, unlink_ok)
              dry == delete_file(TRUE, file_path, files0 \ ext_removed,
                                 unlink_ok)
          IN  /\ ~unlink_ok =>
                    ~dry_run /\ file_path \in files /\ faults < MaxFaults
              /\ faults' = IF unlink_ok THEN faults ELSE faults + 1
              /\ files' = r.files
              /\ IF r.ok
                 THEN /\ deleted_files' = Append(deleted_files, file_path)
                      /\ deleted_files_info' =
                             Append(deleted_files_info, file_info)
                      /\ failed_files' = failed_files
                 ELSE /\ failed_files' = Append(failed_files, file_path)
                      /\ UNCHANGED <<deleted_files, deleted_files_info>>
              /\ attempts' = [attempts EXCEPT ![file_path] = @ + 1]
              /\ would_delete' = IF dry.ok THEN Append(would_delete, file_path)
                                 ELSE would_delete
    /\ i' = i + 1
    /\ pc' = IF i < Len(old_files) THEN "info" ELSE "dirs"
    /\ UNCHANGED <<config, dirs, mtime, now, cycle, exc, signals, old_files,
                   file_info, all_dirs, j, removed_dirs, emitted, files0,
                   dirs0, ext_removed, info_failed, sent0, prev_quiet,
                   prev_clean>>

\* remove_empty_directories, before the loop: the sorted directory list;
\* an exception while listing is caught by the outer handler
ListDirectories ==
    /\ pc = "dirs"
    /\ \E walk_ok \in BOOLEAN :
          IF walk_ok
          THEN /\ all_dirs' = directories_to_check(dirs, files)
               /\ log' = log
               /\ faults' = faults
               /\ pc' = IF all_dirs' = << >> THEN "notify" ELSE "rmdir"
          ELSE /\ faults < MaxFaults
               /\ faults' = faults + 1
               /\ all_dirs' = << >>
               /\ log' = log \cup {[at |-> "walk", path |-> target_dir]}
               /\ pc' = "notify"
    /\ j' = 1
    /\ UNCHANGED <<config, fs, now, cycle, exc, signals, old_files, i,
                   file_info, deleted_files, deleted_files_info, failed_files,
                   removed_dirs, sent, cycle_history, prev_quiet, prev_clean>>

\* remove_empty_directories, one turn of the loop: iterdir, then rmdir or,
\* in dry-run mode, only the record.  os_ok is whether iterdir and rmdir
\* go through; a failure is logged and the loop goes on.
RemoveDirectory ==
    /\ pc = "rmdir"
    /\ \E os_ok \in BOOLEAN :
          LET directory == all_dirs[j]
          IN  /\ ~os_ok => faults < MaxFaults
              /\ faults' = IF os_ok THEN faults ELSE faults + 1
              /\ IF ~os_ok \/ directory \notin dirs
                 THEN /\ log' = log \cup {[at |-> "rmdir", path |-> directory]}
                      /\ UNCHANGED <<dirs, removed_dirs>>
                 ELSE IF iterdir(directory, dirs, files) = {}
                 THEN /\ dirs' = IF dry_run THEN dirs ELSE dirs \ {directory}
                      /\ removed_dirs' = Append(removed_dirs, directory)
                      /\ log' = log
                 ELSE UNCHANGED <<dirs, removed_dirs, log>>
    /\ j' = j + 1
    /\ pc' = IF j < Len(all_dirs) THEN "rmdir" ELSE "notify"
    /\ UNCHANGED <<config, files, mtime, now, cycle, exc, signals, old_files,
                   i, file_info, deleted_files, deleted_files_info,
                   failed_files, all_dirs, sent, cycle_history, prev_quiet,
                   prev_clean>>

\* _send_purge_notification: title and colour of the detailed report
purge_notification ==
    [title |-> IF dry_run THEN "File Purge Report (DRY RUN)"
               ELSE "File Purge Report",
     body |-> "report",
     color |-> IF Len(failed_files) = 0 THEN COLOR_OK ELSE COLOR_WARNING]

\* _send_no_action_notification
no_action_notification ==
    [title |-> "File Purge - Keine Aktion erforderlich",
     body |-> "no action",
     color |-> COLOR_GRAY]

\* variant: the report is sent only when both lists are non-empty
action_taken_Both(deleted, removed) == Len(deleted) > 0 /\ Len(removed) > 0

\* len(deleted_files) > 0 or len(removed_dirs) > 0
action_taken(deleted, removed) == Len(deleted) > 0 \/ Len(removed) > 0

\* the tail of run_purge: the report or the no-action notification
Notify ==
    /\ pc = "notify"
    /\ LET n == IF action_taken(deleted_files, removed_dirs)
                THEN purge_notification
                ELSE no_action_notification
       IN  Notified(n.title, n.body, n.color, "sleep", "raising", "none")
    /\ UNCHANGED <<config, fs, now, cycle, signals, locals, log,
                   cycle_history, prev_quiet, prev_clean>>

\* ------------------------------------------------------------ run_continuous
\* time.sleep(check_interval_seconds), then the next turn of the loop;
\* time.sleep raises ValueError for a negative length
Sleep ==
    /\ pc = "sleep"
    /\ IF check_interval_seconds < 0
       THEN /\ pc' = "raising"
            /\ exc' = "ValueError"
            /\ now' = now
            /\ Unwound
       ELSE /\ pc' = "loop"
            /\ now' = now + check_interval_seconds
            /\ UNCHANGED <<exc, locals, log, cycle_history, prev_quiet,
                           prev_clean>>
    /\ UNCHANGED <<config, fs, cycle, signals, sent, faults>>

\* variant: the handler goes on with the next turn of the loop
FatalHandler_Retries ==
    /\ pc = "raising"
    /\ Notified("File Purge Script Fehler", "fatal", COLOR_RED,
                "loop", "loop", "none")
    /\ UNCHANGED <<config, fs, now, cycle, signals, locals, log,
                   cycle_history, prev_quiet, prev_clean>>

\* except Exception in run_continuous: the error notification, then raise
FatalHandler ==
    /\ pc = "raising"
    /\ Notified("File Purge Script Fehler", "fatal", COLOR_RED,
                "reraised", "reraised", exc)
    /\ UNCHANGED <<config, fs, now, cycle, signals, locals, log,
                   cycle_history, prev_quiet, prev_clean>>

\* except Exception in main, reached by what run_continuous raises: the
\* "could not start" notification, then raise; the process ends
MainHandler ==
    /\ pc = "reraised"
    /\ Notified("File Purge Script Fehler", "could not start", COLOR_RED,
                "crashed", "crashed", exc)
    /\ UNCHANGED <<config, fs, now, cycle, signals, locals, log,
                   cycle_history, prev_quiet, prev_clean>>

\* except KeyboardInterrupt in run_continuous: the final notification
Stop ==
    /\ pc = "interrupted"
    /\ Notified("File Purge Script beendet", "stopped", COLOR_RED,
                "stopped", "reraised", "none")
    /\ UNCHANGED <<config, fs, now, cycle, signals, locals, log,
                   cycle_history, prev_quiet, prev_clean>>

\* ------------------------------------------------------------ environment
\* another actor removes a file between the scan and its deletion
ExternalRemove ==
    /\ pc \in {"info", "delete"}
    /\ faults < MaxFaults
    /\ \E f \in files :
          /\ files' = files \ {f}
          /\ ext_removed' = ext_removed \cup {f}
    /\ faults' = faults + 1
    /\ UNCHANGED <<config, dirs, mtime, now, control, locals, emitted,
                   files0, dirs0, attempts, would_delete, info_failed, sent0,
                   prev_quiet, prev_clean>>

\* the places of run_continuous's try block where KeyboardInterrupt reaches
\* its handler
InsideTry == {"info", "delete", "dirs", "rmdir", "notify", "sleep"}

\* an interrupt signal: KeyboardInterrupt is raised where the program
\* stands.  Inside the try of run_continuous it reaches the handler; during
\* the startup notification, which is sent before the try, it is caught
\* nowhere (main catches only Exception) and the process dies.
Interrupt ==
    /\ faults < MaxFaults
    /\ faults' = faults + 1
    /\ signals' = signals + 1
    /\ \/ /\ pc \in InsideTry
          /\ pc' = "interrupted"
          /\ Unwound
       \/ /\ pc = "startup"
          /\ pc' = "killed"
          /\ UNCHANGED <<locals, log, cycle_history, prev_quiet, prev_clean>>
    /\ exc' = "KeyboardInterrupt"
    /\ UNCHANGED <<config, fs, now, cycle, sent>>

\* an interrupt signal during the stat of format_file_size: the bare except
\* catches KeyboardInterrupt, the size is "?", and run_purge goes on
InterruptDuringFormatSize ==
    /\ pc = "info"
    /\ faults < MaxFaults
    /\ faults' = faults + 1
    /\ signals' = signals + 1
    /\ file_info' = collect_file_info(old_files[i], files, mtime, now, TRUE)
    /\ info_failed' = TRUE
    /\ pc' = "delete"
    /\ UNCHANGED <<config, fs, now, cycle, exc, old_files, i,
                   deleted_files, deleted_files_info, failed_files, all_dirs,
                   j, removed_dirs, emitted, files0, dirs0, ext_removed,
                   attempts, would_delete, sent0, prev_quiet, prev_clean>>

Next ==
    \/ Main
    \/ Startup
    \/ StartCycle
    \/ CollectInfo
    \/ DeleteFile
    \/ ListDirectories
    \/ RemoveDirectory
    \/ Notify
    \/ Sleep
    \/ FatalHandler
    \/ MainHandler
    \/ Stop
    \/ ExternalRemove
    \/ Interrupt
    \/ InterruptDuringFormatSize

Spec == Init /\ [][Next]_vars

\* ------------------------------------------------------------ properties
\* run_purge has been entered and its locals belong to the current cycle
InCycle == pc \in {"info", "delete", "dirs", "rmdir", "notify", "sleep"}

\* run_purge has returned: the locals hold the cycle result
CycleDone == pc = "sleep"

\* the age the scan of the current cycle saw (the clock stands still within
\* a cycle), compared with the limit
AgeAtScan(p) == now - mtime[p]
OverLimit(p) == AgeAtScan(p) > max_age_days * SecondsPerDay

Last(s) == s[Len(s)]

DirectoryErrors == { e \in log : e.at \in {"walk", "rmdir"} }

\* C1: in a real cycle only files the scan found older than max_age_days are
\* unlinked: every regular file that was at most max_age_days old at the
\* scan still exists at every point up to the end of the cycle (unless
\* another actor removed it), and every file the purger removed is a
\* candidate whose age at the scan was over the limit.
C1_OnlyStaleFilesUnlinked ==
    (InCycle /\ ~dry_run) =>
        /\ \A p \in (files0 \cap RegularPaths) \ ext_removed :
              ~OverLimit(p) => p \in files
        /\ (files0 \ files) \ ext_removed \subseteq Range(old_files)
        /\ \A p \in Range(old_files) : OverLimit(p)

\* a real cycle has ended that deleted a file and kept a regular file whose
\* age is exactly the limit
C1_Witness ==
    /\ CycleDone /\ ~dry_run
    /\ deleted_files # << >>
    /\ \E p \in files \cap RegularPaths :
          AgeAtScan(p) = max_age_days * SecondsPerDay

\* C2 (as claimed): the candidates of a scan that ran to its end are exactly
\* the regular files under the root whose age at the scan is over the limit,
\* each once: no other file, no directory, no file whose age is the limit.
C2_CandidatesAreExactlyStaleRegularFiles ==
    (InCycle /\ [at |-> "scan", path |-> target_dir] \notin log) =>
        /\ Range(old_files) = { p \in files0 \cap RegularPaths : OverLimit(p) }
        /\ Len(old_files) = Cardinality(Range(old_files))

\* C3: a dry-run cycle changes nothing: at every point of the cycle the
\* directories are those of its start and the files are those of its start
\* (less what another actor removed meanwhile).
C3_DryRunLeavesTreeUnchanged ==
    (InCycle /\ dry_run) =>
        /\ dirs = dirs0
        /\ files = files0 \ ext_removed
        /\ ext_removed \subseteq files0

\* a dry-run cycle has ended, undisturbed, that reported a deleted file and
\* a removed directory
C3_Witness ==
    /\ CycleDone /\ dry_run
    /\ deleted_files # << >> /\ removed_dirs # << >>
    /\ ext_removed = {}
    /\ files = files0 /\ dirs = dirs0

\* C4: after a real cycle no file of the deleted list exists.
C4_DeletedFilesAreGone ==
    (InCycle /\ ~dry_run) => Range(deleted_files) \cap files = {}

\* a real cycle has ended with a deleted file
C4_Witness ==
    /\ CycleDone /\ ~dry_run
    /\ deleted_files # << >>
    /\ Range(deleted_files) \subseteq files0

\* C5 (as claimed): after a real cycle every file of the failed list exists.
C5_FailedFilesStillExist ==
    (CycleDone /\ ~dry_run) => Range(failed_files) \subseteq files

\* C5 (amended): after a real cycle every file of the failed list that no
\* other actor removed still exists; the purger removes no file it reports
\* as failed.
C5_FailedFilesNotRemovedByPurger ==
    (InCycle /\ ~dry_run) => Range(failed_files) \ ext_removed \subseteq files

\* a real cycle has ended with a failed file that is still there
C5_Witness ==
    /\ CycleDone /\ ~dry_run
    /\ \E p \in Range(failed_files) : p \in files /\ p \notin ext_removed

\* C6: once a purger exists, the target root exists and is never in the
\* removed-directories list, in both modes.
C6_RootIsNeverRemoved ==
    pc \notin {"main", "failed"} =>
        /\ target_dir \in dirs
        /\ target_dir \notin Range(removed_dirs)
        /\ target_dir \notin Range(all_dirs)

\* a real cycle has ended that removed every file and every subdirectory:
\* the root is empty and still there
C6_Witness ==
    /\ CycleDone /\ ~dry_run
    /\ deleted_files # << >> /\ removed_dirs # << >>
    /\ files = {} /\ dirs = {target_dir}

\* C7: after a real cycle without a failed deletion and without a failed
\* directory step, every non-root directory whose subtree held nothing but
\* files the cycle deleted is gone, no non-root directory is empty, and the
\* root is there.
C7_RemovalCascadesBottomUp ==
    (CycleDone /\ ~dry_run /\ failed_files = << >> /\ DirectoryErrors = {}) =>
        /\ \A d \in dirs0 \ {target_dir} :
              { p \in files0 : IsUnder(p, d) } \subseteq Range(deleted_files)
                  => d \notin dirs
        /\ \A d \in dirs \ {target_dir} : iterdir(d, dirs, files) # {}
        /\ target_dir \in dirs

\* root/a/b/c held one stale file: after the cycle a/b/c, a/b and a are
\* removed, in this order, and the root remains
C7_Witness ==
    /\ CycleDone /\ ~dry_run
    /\ dirs0 = DirPaths
    /\ deleted_files = << <<"a", "b", "c", "g">> >>
    /\ removed_dirs = << <<"a", "b", "c">>, <<"a", "b">>, <<"a">> >>
    /\ dirs = {target_dir}

\* the second of two cycles with no sleep time, nothing changed by anyone
\* else since the first began
SecondCycleOnUnchangedTree ==
    /\ CycleDone /\ cycle >= 2
    /\ check_interval_seconds = 0
    /\ prev_quiet /\ ext_removed = {}

NothingDone ==
    /\ deleted_files = << >>
    /\ removed_dirs = << >>
    /\ Last(sent).body = "no action"

\* C8 (as claimed): for any policy, a second cycle right after a first one on
\* an unchanged tree reports no deleted file and no removed directory and
\* sends the no-action notification.
C8_SecondCycleDoesNothing == SecondCycleOnUnchangedTree => NothingDone

\* C8 (amended): in real mode, when the first cycle logged no scan error, no
\* failed deletion and no directory error, a second cycle right after it on
\* an unchanged tree reports no deleted file and no removed directory and
\* sends the no-action notification.
C8_SecondRealCycleAfterCleanOneDoesNothing ==
    (SecondCycleOnUnchangedTree /\ ~dry_run /\ prev_clean) => NothingDone

\* a clean first real cycle sent a report, and the second, right after it,
\* sent the no-action notification
C8_Witness ==
    /\ SecondCycleOnUnchangedTree /\ ~dry_run /\ prev_clean
    /\ cycle = 2
    /\ Len(sent) = 3
    /\ sent[2].body = "report"
    /\ sent[3].body = "no action"

\* C9 (as claimed): the deleted list of a real cycle is the deleted list a
\* dry-run cycle reports from the same tree and the same scan.
C9_DryRunListEqualsRealList ==
    (CycleDone /\ ~dry_run) => deleted_files = would_delete

\* C9 (amended): the dry-run deleted list is the whole candidate list; the
\* deleted list of the real cycle is that list without the failed files, so
\* the two are the same exactly when no deletion of the real cycle fails.
C9_DryRunListIsRealListPlusFailures ==
    CycleDone =>
        /\ would_delete = old_files
        /\ dry_run => deleted_files = old_files /\ failed_files = << >>
        /\ deleted_files =
              SelectSeqBy(would_delete,
                          Range(old_files) \ Range(failed_files))
        /\ (deleted_files = would_delete) <=> (failed_files = << >>)

\* a real cycle has ended with a deleted and a failed file: the dry-run list
\* is longer than the real one
C9_Witness ==
    /\ CycleDone /\ ~dry_run
    /\ deleted_files # << >> /\ failed_files # << >>
    /\ Len(would_delete) > Len(deleted_files)

\* C10: in every cycle result the deleted and the failed list partition the
\* candidates: delete_file was called once for each candidate and for no
\* other path, each candidate is in exactly one of the two lists, in scan
\* order, and no path is in both.
C10_DeletedAndFailedPartitionCandidates ==
    CycleDone =>
        /\ \A p \in FilePaths :
              attempts[p] = IF p \in Range(old_files) THEN 1 ELSE 0
        /\ Range(deleted_files) \cup Range(failed_files) = Range(old_files)
        /\ Range(deleted_files) \cap Range(failed_files) = {}
        /\ Len(deleted_files) + Len(failed_files) = Len(old_files)
        /\ deleted_files = SelectSeqBy(old_files, Range(deleted_files))
        /\ failed_files = SelectSeqBy(old_files, Range(failed_files))

\* a cycle has ended in which a deletion failed and a later candidate was
\* deleted all the same
C10_Witness ==
    /\ CycleDone
    /\ \E k, m \in 1..Len(old_files) :
          /\ k < m
          /\ old_files[k] \in Range(failed_files)
          /\ old_files[m] \in Range(deleted_files)

\* where control goes after a call of send_notification that returns
AfterNotification(at) ==
    CASE at = "main" -> "failed"
      [] at = "startup" -> "loop"
      [] at = "notify" -> "sleep"
      [] at = "interrupted" -> "stopped"
      [] at = "raising" -> "reraised"
      [] at = "reraised" -> "crashed"
      [] OTHER -> at

\* C11: whatever becomes of a notification (no webhook, delivered, delivery
\* failed), the step that sends it changes neither the filesystem nor the
\* cycle result nor the error log, no exception leaves the notifier, and
\* control goes where it goes after a delivered notification: after the
\* end-of-cycle notification run_purge returns and the loop goes on.
C11_NotifierOutcomeNeverInfluencesCycle ==
    [][ sent' # sent =>
           /\ UNCHANGED <<fs, locals, log, cycle>>
           /\ exc' # "RequestException"
           /\ pc' = AfterNotification(pc)
           /\ Len(sent') = Len(sent) + 1
           /\ Last(sent').delivery \in {"skipped", "delivered", "failed"} ]_vars

\* the end-of-cycle report of a real cycle that deleted a file was not
\* delivered, and the next cycle is under way with the files still gone
C11_Witness ==
    /\ pc = "info" /\ cycle = 2 /\ ~dry_run
    /\ sent0 = 2
    /\ sent[2].body = "report" /\ sent[2].delivery = "failed"
    /\ files0 # {} /\ files0 \subseteq files

\* C12 (as claimed): once an interrupt signal has been delivered, anywhere
\* in run_continuous, the program is in its interrupt handler or has ended
\* there with "stopped" as its last notification; it is neither dead
\* without that notification nor still running its loop.
C12_InterruptLeadsToCleanShutdown ==
    signals > 0 =>
        /\ pc \in {"interrupted", "stopped"}
        /\ pc = "stopped" => Last(sent).body = "stopped"

\* C13: a cycle sends nothing before its end and exactly one notification
\* at its end: the detailed report when the deleted list or the
\* removed-directories list is non-empty, the no-action notification
\* otherwise.
C13_OneEndOfCycleNotification ==
    /\ (InCycle /\ ~CycleDone) => Len(sent) = sent0
    /\ CycleDone =>
          /\ Len(sent) = sent0 + 1
          /\ Last(sent).body \in {"report", "no action"}
          /\ Last(sent).body = "report" <=>
                (deleted_files # << >> \/ removed_dirs # << >>)
          /\ Last(sent).body = "no action" <=>
                (deleted_files = << >> /\ removed_dirs = << >>)

\* a cycle that deleted no file and removed a directory has sent the report
C13_Witness ==
    /\ CycleDone /\ ~dry_run
    /\ deleted_files = << >> /\ removed_dirs # << >>
    /\ Len(sent) = 2
    /\ sent[2].body = "report"

\* C14: when the target directory does not exist, main gets no further than
\* the failed construction: it sends the "could not start" notification and
\* nothing else, ends with the ValueError, and no cycle is started - no scan,
\* no deletion, no directory removal.  It ends this way in no other case.
C14_MissingTargetFailsAtStartup ==
    /\ target_dir \notin dirs =>
          /\ pc \in {"main", "failed"}
          /\ cycle = 0
          /\ old_files = << >> /\ deleted_files = << >>
          /\ failed_files = << >> /\ removed_dirs = << >> /\ log = {}
          /\ attempts = NoAttempts
    /\ pc = "failed" =>
          /\ target_dir \notin dirs
          /\ exc = "ValueError"
          /\ Len(sent) = 1
          /\ sent[1].body = "could not start" /\ sent[1].color = COLOR_RED

\* main has ended on a missing target directory with its one notification
C14_Witness ==
    /\ pc = "failed" /\ target_dir \notin dirs
    /\ Len(sent) = 1 /\ sent[1].body = "could not start"
    /\ cycle = 0

ScanError == [at |-> "scan", path |-> target_dir] \in log

\* C15 (as claimed): a cycle whose scan raised has no candidate: it deletes
\* no file and attempts no deletion.
C15_ScanErrorYieldsNoCandidates ==
    (InCycle /\ ScanError) =>
        /\ old_files = << >>
        /\ deleted_files = << >> /\ failed_files = << >>
        /\ attempts = NoAttempts
        /\ files = files0 \ ext_removed

\* the size and the age of a file as they are before its deletion
InfoBeforeDeletion(p) ==
    collect_file_info(p, files0, mtime, now, FALSE)

\* C16: the file info is captured before delete_file is called.  Every file
\* of the deleted list has its record, in the same position, with its
\* relative path and with the size and the age it had before the deletion
\* (a file another actor removed first, or whose size stat was cut short by
\* an interrupt, has the unknown size).  When the capture fails the record
\* has the unknown size, and delete_file is still called for the file: at
\* the end of the candidate loop it has been called for every candidate.
C16_InfoCapturedBeforeDeletion ==
    InCycle =>
        /\ Len(deleted_files_info) = Len(deleted_files)
        /\ \A k \in 1..Len(deleted_files) :
              LET p == deleted_files[k]
                  info == deleted_files_info[k]
              IN  /\ info.path = p
                  /\ info.relative_path = format_file_path(p)
                  /\ (p \notin ext_removed /\ signals = 0) =>
                         /\ info = InfoBeforeDeletion(p)
                         /\ info.size # UnknownSize
                  /\ info.size \in {UnknownSize, InfoBeforeDeletion(p).size}
        /\ (pc = "delete" /\ info_failed) =>
              /\ file_info.path = old_files[i]
              /\ file_info.size = UnknownSize
              /\ attempts[old_files[i]] = 0
        /\ pc \in {"dirs", "rmdir", "notify", "sleep"} =>
              \A p \in Range(old_files) : attempts[p] = 1

\* a real cycle has ended that deleted a file: the file is gone and its
\* record has the size it had
C16_Witness ==
    /\ CycleDone /\ ~dry_run
    /\ deleted_files # << >>
    /\ deleted_files[1] \notin files
    /\ deleted_files_info[1].size = format_file_size(deleted_files[1], files0)
    /\ deleted_files_info[1].size # UnknownSize
    /\ deleted_files_info[1].path = deleted_files[1]

\* C17 (as claimed): the colour of the end-of-cycle notification is the
\* warning colour whenever the failed list is non-empty, the normal colour
\* for a report without failures, and the neutral colour for the no-action
\* notification.
C17_SeverityFollowsFailures ==
    CycleDone =>
        Last(sent).color =
            IF failed_files # << >> THEN COLOR_WARNING
            ELSE IF Last(sent).body = "report" THEN COLOR_OK
            ELSE COLOR_GRAY

\* C18: when an exception reaches the handler of run_continuous, the next
\* step sends the error notification and re-raises; from then on no cycle is
\* started, the tree is left alone, and control never comes back to the
\* loop: the process ends through main.
C18_EscapingExceptionIsFatal ==
    [][ /\ pc = "raising" =>
              /\ Len(sent') = Len(sent) + 1
              /\ Last(sent').body = "fatal" /\ Last(sent').color = COLOR_RED
              /\ pc' = "reraised"
              /\ exc' = exc /\ exc # "none"
              /\ cycle' = cycle
              /\ UNCHANGED <<fs, locals>>
        /\ pc \in {"reraised", "crashed"} =>
              /\ pc' = "crashed"
              /\ exc' = exc /\ exc # "none"
              /\ cycle' = cycle
              /\ UNCHANGED <<fs, locals>> ]_vars

\* time.sleep raised after the first cycle, which had deleted the files:
\* the error notification was sent, the process has ended with the
\* exception, and no second cycle was started
C18_Witness ==
    /\ pc = "crashed" /\ exc = "ValueError"
    /\ cycle = 1 /\ ~dry_run
    /\ files = {}
    /\ Len(sent) >= 3
    /\ sent[2].body = "report"
    /\ sent[3].body = "fatal" /\ sent[3].color = COLOR_RED

FinalNotifications ==
    SelectSeq(sent, LAMBDA n : n.body \in {"could not start", "fatal", "stopped"})

\* C20 (as claimed): a process that has ended has sent exactly one final
\* notification, of the kind of its end: "could not start" when the
\* construction failed, the run-loop error notification after a fatal
\* exception in the loop, "stopped" after an interrupt; and "could not
\* start" is sent only when the construction failed and no cycle has run.
C20_OneMatchingFinalNotification ==
    /\ pc \in {"failed", "crashed", "stopped"} =>
          /\ Len(FinalNotifications) = 1
          /\ FinalNotifications[1].body =
                CASE pc = "failed" -> "could not start"
                  [] pc = "crashed" -> "fatal"
                  [] pc = "stopped" -> "stopped"
    /\ \A k \in 1..Len(sent) :
          sent[k].body = "could not start" =>
              target_dir \notin dirs /\ cycle = 0

\* the non-root directories without any entry, file or directory
EmptyDirectories ==
    { d \in dirs \ {target_dir} :
        \A p \in (dirs \cup files) \ {target_dir} : Parent(p) # d }

\* what a real cycle without failures removes from the tree of this cycle:
\* the candidates are deleted, then the directory pass runs
RealRemovedDirs ==
    remove_empty_directories(FALSE, dirs, files \ Range(old_files))

\* C19 (as claimed): the removed-directories list of a dry-run cycle is
\* exactly the set of non-root directories without entries in the unchanged
\* tree, and a subset of what a real cycle removes from the same tree.
C19_DryRunListIsTheEmptyDirectories ==
    (CycleDone /\ dry_run) =>
        /\ Range(removed_dirs) = EmptyDirectories
        /\ Range(removed_dirs) \subseteq Range(RealRemovedDirs)

\* C19 (amended): the removed-directories list of a dry-run cycle holds only
\* non-root directories without entries in the unchanged tree, each once,
\* and is a subset of what a real cycle without failures removes from the
\* same tree; a directory whose only contents are stale files or empty
\* subdirectories is not in it.  It holds every such directory, deepest
\* first, when the directory pass logged no error; a directory whose check
\* raised, and every directory when the walk raised, is missing from it.
C19_DryRunListIsTheEmptyDirectoriesCheckedWithoutError ==
    (CycleDone /\ dry_run) =>
        /\ Range(removed_dirs) \subseteq EmptyDirectories
        /\ Len(removed_dirs) = Cardinality(Range(removed_dirs))
        /\ Range(removed_dirs) \subseteq Range(RealRemovedDirs)
        /\ DirectoryErrors = {} =>
              /\ Range(removed_dirs) = EmptyDirectories
              /\ removed_dirs = remove_empty_directories(TRUE, dirs, files)
        /\ [at |-> "walk", path |-> target_dir] \in log =>
              removed_dirs = << >>
        /\ [at |-> "walk", path |-> target_dir] \notin log =>
              EmptyDirectories \ Range(removed_dirs) =
                  { e.path : e \in DirectoryErrors } \cap EmptyDirectories

\* a dry-run cycle without errors on root/a/b/c with c empty has listed
\* a/b/c alone, where a real cycle removes a/b/c, a/b and a
C19_Witness ==
    /\ CycleDone /\ dry_run
    /\ DirectoryErrors = {}
    /\ removed_dirs = << <<"a", "b", "c">> >>
    /\ RealRemovedDirs = << <<"a", "b", "c">>, <<"a", "b">>, <<"a">> >>
    /\ dirs = DirPaths

====
